---- MODULE Spec2Model ----
(***************************************************************************)
(* Shopify product generator: the /api/generate request handler            *)
(* (src/api/generate.js, the serverless adapter with chunked concurrency,  *)
(* and src/server.js, the Express adapter) and the pure CSV / slug helpers *)
(* of src/server.js.                                                       *)
(*                                                                         *)
(* src/api/generate.js holds the handler twice: lines 23-128 process the   *)
(* items in chunks of CONCURRENCY, lines 150-239 one file at a time.  The  *)
(* chunked handler is the one modelled; the one-at-a-time loop is the loop *)
(* of src/server.js behind formidable's filter.                            *)
(*                                                                         *)
(* Strings are sequences of one-character strings; the empty JS string ''  *)
(* is the empty sequence.                                                  *)
(***************************************************************************)
EXTENDS Integers, Sequences, FiniteSets, TLC

VARIABLES
    host,       \* which adapter serves the request: "vercel" | "express"
    apiKey,     \* process.env.OPENROUTER_API_KEY is set
    supabase,   \* the storage client exists (server.js:17-20)
    method,     \* req.method
    parts,      \* the multipart file parts of the request: their MIME types
    pc,         \* position of the handler
    items,      \* generate.js:63 items; server.js req.files
    start,      \* generate.js:99 loop variable (0-based offset into items)
    task,       \* per item: the processOne invocation of that item
    products,   \* generate.js:61 / server.js:275
    errors,     \* generate.js:62 / server.js:276
    response,   \* what was sent on res
    arg,        \* input of the pure-function specifications
    ret         \* result of the pure-function specifications

vars == <<host, apiKey, supabase, method, parts, pc, items, start, task,
          products, errors, response, arg, ret>>

(***************************************************************************)
(* Bounds of the model                                                     *)
(***************************************************************************)
MaxFiles == 5

\* generate.js:16
CONCURRENCY == 4

EmptyStr == <<>>

Min(a, b) == IF a < b THEN a ELSE b

Range(s) == {s[i] : i \in DOMAIN s}

(***************************************************************************)
(* Request parsing                                                         *)
(***************************************************************************)
\* the MIME types the modelled requests carry
MimeTypes == {"image/png", "application/pdf"}

\* /^image\/(jpeg|jpg|png|gif|webp)$/i, on the lower-cased type
allowed == {"image/jpeg", "image/jpg", "image/png", "image/gif", "image/webp"}

\* formidable's filter option: a part for which it returns false is skipped,
\* the parse itself does not fail
filter(mimetype) == mimetype \in allowed

\* multer's fileFilter: cb(null, true) accepts, cb(new Error) fails the request
fileFilter(mimetype) == mimetype \in allowed

RECURSIVE SelectIdx(_, _)
\* the indices 1..n of the parts that pass the filter, in order
SelectIdx(ps, n) ==
    IF n = 0 THEN <<>>
    ELSE IF filter(ps[n]) THEN Append(SelectIdx(ps, n - 1), n)
         ELSE SelectIdx(ps, n - 1)

\* files.images after form.parse
fileList == SelectIdx(parts, Len(parts))

NoResponse == [status |-> 0, error |-> "", details |-> <<>>, csv |-> <<>>, rows |-> <<>>]

Json(status, error, details) ==
    [status |-> status, error |-> error, details |-> details, csv |-> <<>>, rows |-> <<>>]

\* the idle processOne record of one item
IdleTask == [pc |-> "pending", cls |-> "none", upl |-> "none", product |-> <<>>]

(***************************************************************************)
(* Per-image pipeline                                                      *)
(***************************************************************************)
\* how getProductFromImage can end: "key" (no API key, server.js:187-189),
\* "http" (!response.ok, server.js:230-233), "empty" (no content,
\* server.js:237), "json" (JSON.parse threw, server.js:245-249), "ok" (the
\* record of server.js:254-266)
ClassifyOutcomes == IF apiKey THEN {"ok", "http", "empty", "json"} ELSE {"key"}

\* every outcome but "ok" is a throw: the caller's catch sees an Error, whose
\* text is not modelled
Throws(o) == o # "ok"

\* what the storage upload can end with: a public URL, no URL, an error
UploadOutcomes == {"url", "nourl", "error"}

\* data.publicUrl of the object stored for file i
PublicUrl(i) == <<"u", i>>

\* the record getProductFromImage returns for file i (imageSrc: '')
NewProduct(i) == [index |-> i, imageSrc |-> EmptyStr]

\* mutant of StorageConfigured: the early return of server.js:59-62 is missing
StorageAssumed == TRUE

\* if (!supabase) return ''
StorageConfigured == supabase

\* mutant of PushError: a push that is not one step, as under a race of two
\* writers: the entry is stored at the last index instead of after it
PushErrorOverwrites(errs, file, message) ==
    IF errs = <<>> THEN <<[file |-> file, message |-> message]>>
    ELSE [errs EXCEPT ![Len(errs)] = [file |-> file, message |-> message]]

\* errors.push({ file, message }); the message is modelled by the push that
\* made it: "read" (generate.js:71), "classify" (generate.js:94,
\* server.js:296), "upload" (generate.js:90, server.js:291)
PushError(errs, file, message) == Append(errs, [file |-> file, message |-> message])

\* mutant of ChunkEnd: every remaining item is started at once
ChunkEndAll(s, n, size) == n

\* the first 0-based offset after the chunk that starts at s
ChunkEnd(s, n, size) == Min(s + size, n)

\* items processed concurrently: CONCURRENCY per chunk; the Express loop
\* awaits each file before the next
ChunkSize == IF host = "vercel" THEN CONCURRENCY ELSE 1

\* positions (1-based) of the chunk items.slice(s, s + size)
Chunk(s) == (s + 1) .. ChunkEnd(s, Len(items), ChunkSize)

\* chunk.map(processOne) over the positions lo..hi: every processOne of the
\* chunk runs to its first await, the classification request of its item
StartChunk(t, lo, hi) ==
    [k \in DOMAIN t |-> IF k \in lo..hi THEN [t[k] EXCEPT !.pc = "classify"] ELSE t[k]]

RECURSIVE ChunkProductsReversed(_, _, _)
\* mutant of ChunkProducts: the products of a chunk are pushed last first
ChunkProductsReversed(t, lo, hi) ==
    IF lo > hi THEN <<>>
    ELSE ChunkProductsReversed(t, lo + 1, hi) \o t[lo].product

RECURSIVE ChunkProducts(_, _, _)
\* results.forEach(r => { if (r.product) products.push(r.product) }) over the
\* positions lo..hi, in the order of the chunk
ChunkProducts(t, lo, hi) ==
    IF lo > hi THEN <<>>
    ELSE t[lo].product \o ChunkProducts(t, lo + 1, hi)

\* mutant of Respond: the empty product list is not told apart
RespondCsvAlways(prods, errs) ==
    [status |-> 200, error |-> "", details |-> <<>>, csv |-> <<"header">>, rows |-> prods]

\* the response chosen once the loop has ended
Respond(prods, errs) ==
    IF Len(prods) = 0
    THEN Json(400, "No products could be generated.", errs)
    ELSE [status |-> 200, error |-> "", details |-> <<>>,
          csv |-> <<"header">>, rows |-> prods]

(***************************************************************************)
(* Initial states                                                          *)
(***************************************************************************)
PartLists == UNION {[1..n -> MimeTypes] : n \in 0..MaxFiles}

Null == <<"null">>

InitHandler ==
    /\ host \in {"vercel", "express"}
    /\ apiKey \in BOOLEAN
    /\ supabase \in BOOLEAN
    /\ method \in IF host = "vercel" THEN {"POST", "GET", "OPTIONS"} ELSE {"POST"}
    /\ parts \in PartLists
    /\ pc = "start"
    /\ items = <<>>
    /\ start = 0
    /\ task = <<>>
    /\ products = <<>>
    /\ errors = <<>>
    /\ response = NoResponse

Init ==
    /\ InitHandler
    /\ arg = <<>>
    /\ ret = <<>>

(***************************************************************************)
(* Actions of the serverless handler, src/api/generate.js                  *)
(***************************************************************************)
Finish(resp) ==
    /\ response' = resp
    /\ pc' = "done"

\* generate.js:27-30
Preflight ==
    /\ host = "vercel" /\ pc = "start" /\ method = "OPTIONS"
    /\ Finish(Json(204, "", <<>>))
    /\ UNCHANGED <<host, apiKey, supabase, method, parts, items, start, task,
                   products, errors, arg, ret>>

\* generate.js:32-35
MethodNotAllowed ==
    /\ host = "vercel" /\ pc = "start" /\ method \notin {"OPTIONS", "POST"}
    /\ Finish(Json(405, "Method not allowed. Use POST.", <<>>))
    /\ UNCHANGED <<host, apiKey, supabase, method, parts, items, start, task,
                   products, errors, arg, ret>>

\* generate.js:50 rejecting (malformed body, a file over maxFileSize), caught
\* at generate.js:121-127; in Express, multer's error reaches the default
\* error handler
ParseFails ==
    /\ pc = "start" /\ method = "POST"
    /\ Finish(Json(500, "parse", <<>>))
    /\ UNCHANGED <<host, apiKey, supabase, method, parts, items, start, task,
                   products, errors, arg, ret>>

\* generate.js:38-59
ParseForm ==
    /\ host = "vercel" /\ pc = "start" /\ method = "POST"
    /\ IF Len(fileList) = 0
       THEN Finish(Json(400, "No images uploaded.", <<>>))
       ELSE /\ pc' = "read"
            /\ UNCHANGED response
    /\ UNCHANGED <<host, apiKey, supabase, method, parts, items, start, task,
                   products, errors, arg, ret>>

RECURSIVE ReadItems(_, _, _)
\* generate.js:64-80: the items of the files that could be read
ReadItems(fl, ok, n) ==
    IF n = 0 THEN <<>>
    ELSE IF ok[n] THEN Append(ReadItems(fl, ok, n - 1), [index |-> fl[n]])
         ELSE ReadItems(fl, ok, n - 1)

RECURSIVE ReadErrors(_, _, _)
\* generate.js:70-72: one error per file that could not be read
ReadErrors(fl, ok, n) ==
    IF n = 0 THEN <<>>
    ELSE IF ok[n] THEN ReadErrors(fl, ok, n - 1)
         ELSE PushError(ReadErrors(fl, ok, n - 1), fl[n], "read")

\* the loop of generate.js:99 entered at offset s with the lists as given:
\* starts the chunk at s, or leaves the loop and responds
EnterLoop(its, tk, s, prods, errs) ==
    /\ items' = its
    /\ start' = s
    /\ products' = prods
    /\ errors' = errs
    /\ IF s < Len(its)
       THEN /\ task' = StartChunk(tk, s + 1, ChunkEnd(s, Len(its), ChunkSize))
            /\ pc' = "chunk"
            /\ UNCHANGED response
       ELSE /\ task' = tk
            /\ Finish(Respond(prods, errs))

\* generate.js:61-101: read every file, then start the first chunk
ReadFiles ==
    /\ host = "vercel" /\ pc = "read"
    /\ \E ok \in [1..Len(fileList) -> BOOLEAN] :
         LET its == ReadItems(fileList, ok, Len(fileList))
         IN EnterLoop(its, [k \in 1..Len(its) |-> IdleTask], 0, <<>>,
                      ReadErrors(fileList, ok, Len(fileList)))
    /\ UNCHANGED <<host, apiKey, supabase, method, parts, arg, ret>>

\* mutant of ClassifyFailed: the catch returns a placeholder product
ClassifyFailedPlaceholder(t) ==
    [t EXCEPT !.pc = "done", !.cls = "failed", !.product = <<[index |-> 0, imageSrc |-> EmptyStr]>>]

\* the processOne record after getProductFromImage threw (generate.js:93-96)
ClassifyFailed(t) == [t EXCEPT !.pc = "done", !.cls = "failed", !.product = <<>>]

\* the processOne record after getProductFromImage returned
\* (generate.js:85-87): the upload is awaited if storage is configured,
\* otherwise uploadImageToSupabase returns '' and the product is returned
Classified(t, i) ==
    [t EXCEPT !.pc = IF StorageConfigured THEN "upload" ELSE "done",
              !.cls = "ok",
              !.upl = IF StorageConfigured THEN "pending" ELSE "none",
              !.product = <<NewProduct(i)>>]

\* getProductFromImage of item k settles
ClassifyDone(k) ==
    /\ pc = "chunk" /\ k \in DOMAIN task /\ task[k].pc = "classify"
    /\ \E o \in ClassifyOutcomes :
         IF Throws(o)
         THEN /\ task' = [task EXCEPT ![k] = ClassifyFailed(@)]
              /\ errors' = PushError(errors, items[k].index, "classify")
         ELSE /\ task' = [task EXCEPT ![k] = Classified(@, items[k].index)]
              /\ UNCHANGED errors
    /\ UNCHANGED <<host, apiKey, supabase, method, parts, pc, items, start,
                   products, response, arg, ret>>

\* if (imageUrl) product.imageSrc = imageUrl
SetImageSrc(p, url) == IF url # EmptyStr THEN [p EXCEPT !.imageSrc = url] ELSE p

\* mutant of Uploaded: a failed upload discards the product, as if the upload
\* were inside the try of the classification
UploadedOrDropped(t, o, i) ==
    [t EXCEPT !.pc = "done", !.upl = o,
              !.product = IF o = "url" THEN <<[@[1] EXCEPT !.imageSrc = PublicUrl(i)]>>
                          ELSE IF o = "error" THEN <<>> ELSE @]

\* the processOne record after the upload settled with o (generate.js:87-92)
Uploaded(t, o, i) ==
    [t EXCEPT !.pc = "done", !.upl = o,
              !.product = IF o = "url" THEN <<SetImageSrc(@[1], PublicUrl(i))>> ELSE @]

\* uploadImageToSupabase of item k settles
UploadDone(k) ==
    /\ pc = "chunk" /\ k \in DOMAIN task /\ task[k].pc = "upload"
    /\ \E o \in UploadOutcomes :
         /\ task' = [task EXCEPT ![k] = Uploaded(@, o, items[k].index)]
         /\ errors' = IF o = "error" THEN PushError(errors, items[k].index, "upload")
                      ELSE errors
    /\ UNCHANGED <<host, apiKey, supabase, method, parts, pc, items, start,
                   products, response, arg, ret>>

\* generate.js:101-120: Promise.all of the chunk resolves, its products are
\* pushed, and the loop goes on to the next chunk or to the response
ChunkSettled ==
    /\ pc = "chunk"
    /\ \A k \in Chunk(start) : task[k].pc = "done"
    /\ EnterLoop(items, task, ChunkEnd(start, Len(items), ChunkSize),
                 products \o ChunkProducts(task, start + 1,
                                           ChunkEnd(start, Len(items), ChunkSize)),
                 errors)
    /\ UNCHANGED <<host, apiKey, supabase, method, parts, arg, ret>>

(***************************************************************************)
(* The Express handler, src/server.js:270-313                              *)
(***************************************************************************)
\* server.js:30-38 and 270-281: multer accepts or fails the request, then
\* the handler runs to the first classification
MulterParse ==
    /\ host = "express" /\ pc = "start" /\ method = "POST"
    /\ IF \E i \in DOMAIN parts : ~fileFilter(parts[i])
       THEN /\ Finish(Json(500, "Only images (JPEG, PNG, GIF, WebP) are allowed.", <<>>))
            /\ UNCHANGED <<items, start, task, products, errors>>
       ELSE IF Len(parts) = 0
       THEN /\ Finish(Json(400, "No images uploaded.", <<>>))
            /\ UNCHANGED <<items, start, task, products, errors>>
       ELSE EnterLoop([k \in 1..Len(parts) |-> [index |-> k]],
                      [k \in 1..Len(parts) |-> IdleTask], 0, <<>>, <<>>)
    /\ UNCHANGED <<host, apiKey, supabase, method, parts, arg, ret>>

Next ==
    \/ Preflight
    \/ MethodNotAllowed
    \/ ParseFails
    \/ ParseForm
    \/ ReadFiles
    \/ MulterParse
    \/ \E k \in 1..Len(items) : ClassifyDone(k)
    \/ \E k \in 1..Len(items) : UploadDone(k)
    \/ ChunkSettled

Spec == Init /\ [][Next]_vars


(***************************************************************************)
(* Strings and the pure helpers of src/server.js                           *)
(***************************************************************************)
MaxFieldLen == 3
MaxTitleLen == 3
MaxProducts == 2

\* all strings over the characters cs of length at most n
Strs(cs, n) == UNION {[1..m -> cs] : m \in 0..n}

\* a literal of ordinary characters, held as one symbol
Lit(s) == <<s>>

\* a || b on strings: the empty string is falsy
Or(a, b) == IF a # EmptyStr THEN a ELSE b

LowerLetters == <<"a", "b", "c", "d", "e", "f", "g", "h", "i", "j", "k", "l", "m",
                  "n", "o", "p", "q", "r", "s", "t", "u", "v", "w", "x", "y", "z">>

UpperLetters == <<"A", "B", "C", "D", "E", "F", "G", "H", "I", "J", "K", "L", "M",
                  "N", "O", "P", "Q", "R", "S", "T", "U", "V", "W", "X", "Y", "Z">>

DigitChars == <<"0", "1", "2", "3", "4", "5", "6", "7", "8", "9">>

\* \s of the regular expressions, as far as the modelled strings go
Whitespace == {" ", "\t", "\n", "\r", "\f"}

\* \w: [A-Za-z0-9_]
WordChars == Range(LowerLetters) \cup Range(UpperLetters) \cup Range(DigitChars) \cup {"_"}

\* .toLowerCase() on one character
LowerChar(c) ==
    IF c \in Range(UpperLetters)
    THEN LowerLetters[CHOOSE i \in DOMAIN UpperLetters : UpperLetters[i] = c]
    ELSE c

ToLowerCase(s) == [i \in DOMAIN s |-> LowerChar(s[i])]

RECURSIVE TrimStart(_)
TrimStart(s) ==
    IF s # <<>> /\ Head(s) \in Whitespace THEN TrimStart(Tail(s)) ELSE s

RECURSIVE TrimEnd(_)
TrimEnd(s) ==
    IF s # <<>> /\ s[Len(s)] \in Whitespace THEN TrimEnd(SubSeq(s, 1, Len(s) - 1)) ELSE s

\* .trim()
Trim(s) == TrimEnd(TrimStart(s))

RECURSIVE ReplaceRuns(_, _, _)
\* .replace(/X+/g, to) for a character class X of at least min characters:
\* every maximal run of at least min characters of cls becomes to
ReplaceRuns(s, cls, to) ==
    IF s = <<>> THEN <<>>
    ELSE IF Head(s) \in cls
         THEN IF Len(s) > 1 /\ s[2] \in cls
              THEN ReplaceRuns(Tail(s), cls, to)
              ELSE to \o ReplaceRuns(Tail(s), cls, to)
         ELSE <<Head(s)>> \o ReplaceRuns(Tail(s), cls, to)

\* .replace(/[^\w\-]+/g, '')
RemoveNonWord(s) == SelectSeq(s, LAMBDA c : c \in WordChars \cup {"-"})

RECURSIVE StripLeadingHyphens(_)
\* .replace(/^-+/, '')
StripLeadingHyphens(s) ==
    IF s # <<>> /\ Head(s) = "-" THEN StripLeadingHyphens(Tail(s)) ELSE s

RECURSIVE StripTrailingHyphens(_)
\* .replace(/-+$/, '')
StripTrailingHyphens(s) ==
    IF s # <<>> /\ s[Len(s)] = "-"
    THEN StripTrailingHyphens(SubSeq(s, 1, Len(s) - 1)) ELSE s

\* server.js:45-55; /\-\-+/ replaces the runs of two or more hyphens, which
\* is the same string as replacing every run of one or more
slugify(text) ==
    StripTrailingHyphens(
      StripLeadingHyphens(
        ReplaceRuns(
          RemoveNonWord(ReplaceRuns(Trim(ToLowerCase(text)), Whitespace, <<"-">>)),
          {"-"}, <<"-">>)))

\* mutant of ReplaceQuotes: the double quotes are not doubled
ReplaceQuotesNone(s) == s

RECURSIVE ReplaceQuotes(_)
\* .replace(/"/g, '""')
ReplaceQuotes(s) ==
    IF s = <<>> THEN <<>>
    ELSE (IF Head(s) = "\"" THEN <<"\"", "\"">> ELSE <<Head(s)>>) \o ReplaceQuotes(Tail(s))

\* mutant of NeedsQuotes: the line breaks are missing from the class
NeedsQuotesNoLineBreak(s) == \E i \in DOMAIN s : s[i] \in {",", "\""}

\* /[,"\n\r]/.test(s)
NeedsQuotes(s) == \E i \in DOMAIN s : s[i] \in {",", "\"", "\n", "\r"}

\* server.js:115-120
escapeCsvField(value) ==
    IF value = Null THEN EmptyStr
    ELSE LET s == ReplaceQuotes(value)
         IN IF NeedsQuotes(s) THEN <<"\"">> \o s \o <<"\"">> ELSE s

RECURSIVE Join(_, _)
\* Array.prototype.join
Join(ss, sep) ==
    IF ss = <<>> THEN <<>>
    ELSE IF Len(ss) = 1 THEN ss[1]
    ELSE ss[1] \o sep \o Join(Tail(ss), sep)

RECURSIVE ToStr(_)
\* the decimal digits of a natural number
ToStr(n) == IF n < 10 THEN <<DigitChars[n + 1]>> ELSE ToStr(n \div 10) \o <<DigitChars[(n % 10) + 1]>>

ProductPrefix == <<"p", "r", "o", "d", "u", "c", "t", "-">>

\* server.js:123-153, index 0-based
toShopifyRow(product, index) ==
    LET handle == Or(product.handle, ProductPrefix \o ToStr(index + 1))
    IN Join(<<escapeCsvField(handle),
              escapeCsvField(product.title),
              escapeCsvField(product.bodyHtml),
              escapeCsvField(Or(product.vendor, EmptyStr)),
              escapeCsvField(Or(product.type, EmptyStr)),
              escapeCsvField(Or(product.tags, EmptyStr)),
              escapeCsvField(Lit("true")),
              escapeCsvField(EmptyStr),
              escapeCsvField(Lit("Default Title")),
              escapeCsvField(EmptyStr),
              escapeCsvField(EmptyStr),
              escapeCsvField(EmptyStr),
              escapeCsvField(EmptyStr),
              escapeCsvField(Or(product.sku, EmptyStr)),
              escapeCsvField(EmptyStr),
              escapeCsvField(EmptyStr),
              escapeCsvField(Lit("0")),
              escapeCsvField(Lit("deny")),
              escapeCsvField(Lit("manual")),
              escapeCsvField(Or(product.price, Lit("0.00"))),
              escapeCsvField(EmptyStr),
              escapeCsvField(Lit("true")),
              escapeCsvField(Lit("true")),
              escapeCsvField(Or(product.barcode, EmptyStr)),
              escapeCsvField(Or(product.imageSrc, EmptyStr)),
              escapeCsvField(Or(product.imageAlt, Or(product.title, EmptyStr)))>>,
            <<",">>)

\* server.js:156-182, the column names
HeaderColumns ==
    <<Lit("Handle"), Lit("Title"), Lit("Body (HTML)"), Lit("Vendor"), Lit("Type"),
      Lit("Tags"), Lit("Published"), Lit("Option1 Name"), Lit("Option1 Value"),
      Lit("Option2 Name"), Lit("Option2 Value"), Lit("Option3 Name"),
      Lit("Option3 Value"), Lit("Variant SKU"), Lit("Variant Grams"),
      Lit("Variant Inventory Tracker"), Lit("Variant Inventory Qty"),
      Lit("Variant Inventory Policy"), Lit("Variant Fulfillment Service"),
      Lit("Variant Price"), Lit("Variant Compare-at Price"),
      Lit("Variant Requires Shipping"), Lit("Variant Taxable"),
      Lit("Variant Barcode"), Lit("Image Src"), Lit("Image Alt Text")>>

\* server.js:156-183
SHOPIFY_CSV_HEADER == Join(HeaderColumns, <<",">>)

\* the byte-order mark, U+FEFF
BOM == "BOM"

\* generate.js:115-116, server.js:307-308
BuildCsv(prods) ==
    <<BOM>> \o Join(<<SHOPIFY_CSV_HEADER>> \o [i \in DOMAIN prods |-> toShopifyRow(prods[i], i - 1)],
                    <<"\r", "\n">>)

UntitledProduct == <<"U", "n", "t", "i", "t", "l", "e", "d", " ",
                     "P", "r", "o", "d", "u", "c", "t">>

\* the keys of the model's JSON reply that getProductFromImage reads
ReplyKeys == {"title", "body_html", "bodyHtml", "vendor", "type", "tags", "price"}

\* the reply without any of the keys
EmptyReply == [k \in ReplyKeys |-> EmptyStr]

\* server.js:251-266: the record made of the parsed reply (an absent key
\* and an empty string are both falsy)
BuildProduct(parsed, filename) ==
    LET title == Or(parsed.title, UntitledProduct)
        handle == Or(slugify(title), ProductPrefix \o filename)
    IN [handle |-> handle,
        title |-> title,
        bodyHtml |-> Or(parsed.body_html, Or(parsed.bodyHtml, EmptyStr)),
        vendor |-> Or(parsed.vendor, EmptyStr),
        type |-> Or(parsed.type, EmptyStr),
        tags |-> Or(parsed.tags, EmptyStr),
        price |-> Or(parsed.price, Lit("0.00")),
        sku |-> EmptyStr,
        barcode |-> EmptyStr,
        imageSrc |-> EmptyStr,
        imageAlt |-> title]

(***************************************************************************)
(* Properties of the request handler                                       *)
(***************************************************************************)
\* the input images (indices of parts) whose classification succeeded
Succeeded == {items[k].index : k \in {j \in DOMAIN task : task[j].cls = "ok"}}

\* the input images whose classification failed
Failed == {items[k].index : k \in {j \in DOMAIN task : task[j].cls = "failed"}}

\* the input image each product of a list was made from
Indices(prods) == [k \in DOMAIN prods |-> prods[k].index]

Increasing(s) == \A i, j \in DOMAIN s : i < j => s[i] < s[j]

\* the loop over the items has ended and the handler has responded
Processed == pc = "done" /\ Len(items) > 0

ErrorsOf(i) == {e \in DOMAIN errors : errors[e].file = i}

\* C1: the product list is, at every moment, in input order and made of
\* images whose classification succeeded only; once the handler has
\* responded it is exactly the images whose classification succeeded, one
\* row each, and the CSV rows are that list
C1_InputOrder ==
    /\ Increasing(Indices(products))
    /\ Range(Indices(products)) \subseteq Succeeded
    /\ Processed =>
         /\ Range(Indices(products)) = Succeeded
         /\ Len(products) = Cardinality(Succeeded)
         /\ response.status = 200 => response.rows = products

\* C1 witness: images 2 and 3 of four failed, 3 before 2, and the list is 1, 4
C1_Witness ==
    /\ host = "vercel" /\ pc = "done" /\ Len(parts) = 4
    /\ Indices(products) = <<1, 4>>
    /\ Len(errors) = 2 /\ errors[1].file = 3 /\ errors[2].file = 2

\* C2: an image whose classification failed has exactly one error entry,
\* no product and no upload; the handler is never stuck before it responds,
\* and when it has responded every item was processed to completion
C2_FailureIsolated ==
    /\ \A k \in DOMAIN task :
         task[k].cls = "failed" =>
           /\ Cardinality(ErrorsOf(items[k].index)) = 1
           /\ \A e \in ErrorsOf(items[k].index) : errors[e].message = "classify"
           /\ task[k].product = <<>>
           /\ items[k].index \notin Range(Indices(products))
    /\ pc # "done" => ENABLED Next
    /\ Processed => \A k \in DOMAIN task : task[k].pc = "done" /\ task[k].cls # "none"

\* C2 witness: in the first chunk images 1 and 3 failed, 3 first, and their
\* siblings and the image of the next chunk produced products
C2_Witness ==
    /\ host = "vercel" /\ pc = "done" /\ Len(items) = 5
    /\ task[1].cls = "failed" /\ task[3].cls = "failed"
    /\ errors = <<[file |-> 3, message |-> "classify"], [file |-> 1, message |-> "classify"]>>
    /\ Indices(products) = <<2, 4, 5>>

AllFailed == Len(parts) > 0 /\ Failed = 1..Len(parts)

\* C3: when every image of the request failed classification the response
\* is 400 without CSV and carries one error per image; a CSV is sent, with
\* status 200, exactly when the product list is not empty at the end
C3_AllFailed ==
    pc = "done" =>
      /\ AllFailed =>
           /\ response.status = 400
           /\ response.csv = <<>>
           /\ Len(response.details) = Len(parts)
      /\ (response.status = 200) <=> (Len(products) > 0)
      /\ (response.csv # <<>>) <=> (Len(products) > 0)

\* C3 witness: five images in two chunks, all failed
C3_Witness ==
    /\ host = "vercel" /\ pc = "done" /\ Len(parts) = 5 /\ AllFailed
    /\ errors[1].file = 2

\* the product made from image i, wherever it is held
Held == Range(products) \cup UNION {Range(task[k].product) : k \in DOMAIN task}

\* C4: a classified image whose upload failed keeps its product, with empty
\* imageSrc, and has exactly one error entry; imageSrc is set only from a
\* successful upload of the same image that returned a URL; no upload is
\* attempted for an image whose classification failed; a product in the
\* list is the record its processOne returned, unchanged
C4_UploadFailure ==
    /\ \A k \in DOMAIN task :
         /\ task[k].upl = "error" =>
              /\ task[k].cls = "ok"
              /\ task[k].product = <<NewProduct(items[k].index)>>
              /\ Cardinality(ErrorsOf(items[k].index)) = 1
              /\ \A e \in ErrorsOf(items[k].index) : errors[e].message = "upload"
              /\ Processed => NewProduct(items[k].index) \in Range(products)
         /\ task[k].cls = "failed" => task[k].upl = "none"
         /\ task[k].upl # "none" => task[k].cls = "ok"
    /\ \A p \in Held :
         p.imageSrc # EmptyStr =>
           /\ p.imageSrc = PublicUrl(p.index)
           /\ \E k \in DOMAIN task : items[k].index = p.index /\ task[k].upl = "url"
    /\ \A p \in Range(products) :
         \E k \in DOMAIN task : items[k].index = p.index /\ task[k].product = <<p>>

\* C4 witness: the upload of image 1 failed, that of image 2 gave a URL
C4_Witness ==
    /\ host = "vercel" /\ pc = "done" /\ response.status = 200
    /\ Len(products) = 2
    /\ products[1] = NewProduct(1)
    /\ products[2].imageSrc = PublicUrl(2)
    /\ Len(errors) = 1 /\ errors[1] = [file |-> 1, message |-> "upload"]

\* C5: without a storage client every product has imageSrc '', no upload
\* error is recorded, and the CSV is sent for the classified images
C5_StorageUnconfigured ==
    ~supabase =>
      /\ \A p \in Held : p.imageSrc = EmptyStr
      /\ \A e \in DOMAIN errors : errors[e].message # "upload"
      /\ \A k \in DOMAIN task : task[k].upl = "none"
      /\ (Processed /\ Succeeded # {}) =>
           /\ response.status = 200
           /\ Range(Indices(response.rows)) = Succeeded

\* C5 witness: no storage client, two of three images classified
C5_Witness ==
    /\ ~supabase /\ pc = "done" /\ Len(parts) = 3
    /\ response.status = 200
    /\ Indices(response.rows) = <<1, 3>>

\* some part of the request has a MIME type outside the allow-list
HasForeignPart == \E i \in DOMAIN parts : parts[i] \notin allowed

\* C6: a request with a part outside the allow-list is rejected as a whole:
\* no image of it is ever classified and the response is an error
C6_RejectedBeforeProcessing ==
    (method = "POST" /\ HasForeignPart) =>
      /\ \A k \in DOMAIN task : task[k].pc = "pending"
      /\ pc = "done" => response.status \in {400, 500}

\* every image of an earlier chunk has finished before one of a later starts
ChunkOf(k) == (k - 1) \div CONCURRENCY

InFlight == {k \in DOMAIN task : task[k].pc \in {"classify", "upload"}}

\* C7: at most CONCURRENCY images are in flight, and an image has started
\* only if every image of the earlier chunks is done
C7_BoundedSequentialChunks ==
    /\ Cardinality(InFlight) <= CONCURRENCY
    /\ \A j, k \in DOMAIN task :
         (ChunkOf(j) < ChunkOf(k) /\ task[k].pc # "pending") => task[j].pc = "done"
    /\ \A j, k \in InFlight : ChunkOf(j) = ChunkOf(k)

\* C7 witness: the fifth image is being classified, the first four are done
C7_Witness ==
    /\ host = "vercel" /\ Len(items) = 5
    /\ task[5].pc = "classify"
    /\ \A k \in 1..4 : task[k].pc = "done"

\* the tasks of the running chunk that have pushed to the error list: an
\* entry of a file with message "classify" or "upload" is pushed by the
\* processOne of that file (generate.js:90, 94)
ErrorWriters ==
    {k \in Chunk(start) :
       \E e \in ErrorsOf(items[k].index) : errors[e].message \in {"classify", "upload"}}

\* the tasks of the running chunk whose product is in the product list
\* while the chunk runs
ProductListWriters ==
    {k \in Chunk(start) : items[k].index \in Range(Indices(products))}

\* the tasks of the running chunk that have assigned the imageSrc of p
RecordWriters(p) ==
    {k \in Chunk(start) : p.imageSrc = PublicUrl(items[k].index)}

TaskErrors == {e \in DOMAIN errors : errors[e].message \in {"classify", "upload"}}

\* C11 as stated: while a chunk runs, each of the product list, the error
\* list and every product record has been mutated by at most one task of
\* the chunk
C11_SingleWriter ==
    pc = "chunk" =>
      /\ Cardinality(ProductListWriters) <= 1
      /\ Cardinality(ErrorWriters) <= 1
      /\ \A p \in Held : Cardinality(RecordWriters(p)) <= 1

\* C11 amended: while a chunk runs no task of it has touched the product
\* list, and a product record is held and assigned by the task of its own
\* image only; the error list is pushed to by every task that fails, and
\* no push is lost or doubled: it holds one entry per failed classification
\* and one per failed upload, each naming its file
C11_NoLostUpdate ==
    /\ pc = "chunk" =>
         /\ ProductListWriters = {}
         /\ \A k \in Chunk(start) : \A p \in Range(task[k].product) :
              /\ p.index = items[k].index
              /\ RecordWriters(p) \subseteq {k}
    /\ \A p \in Held : Cardinality({k \in DOMAIN task : p.imageSrc = PublicUrl(items[k].index)}) <= 1
    /\ Cardinality(TaskErrors) =
         Cardinality({k \in DOMAIN task : task[k].cls = "failed"})
         + Cardinality({k \in DOMAIN task : task[k].upl = "error"})
    /\ \A k \in DOMAIN task :
         /\ task[k].cls = "failed" =>
              \E e \in ErrorsOf(items[k].index) : errors[e].message = "classify"
         /\ task[k].upl = "error" =>
              \E e \in ErrorsOf(items[k].index) : errors[e].message = "upload"

\* C11 witness: in a running chunk three tasks have pushed an error, in an
\* order other than that of the items, a fourth is still in flight, and a
\* task of the next chunk to come is pending
C11_Witness ==
    /\ host = "vercel" /\ pc = "chunk" /\ start = 0 /\ Len(items) = 5
    /\ ErrorWriters = {1, 2, 3}
    /\ errors[1].file = 3 /\ errors[1].message = "upload"
    /\ errors[2].file = 1 /\ errors[3].file = 2
    /\ task[4].pc = "upload"

(***************************************************************************)
(* Specifications of the pure helpers: the input is drawn into arg, the    *)
(* call leaves its result in ret.  No request is being handled.            *)
(***************************************************************************)
\* ret before the call; after it, ret is the one-element sequence of the
\* result
Unset == <<>>

NoRequest ==
    /\ host = "none" /\ apiKey = FALSE /\ supabase = FALSE /\ method = "none"
    /\ parts = <<>> /\ pc = "idle" /\ items = <<>> /\ start = 0 /\ task = <<>>
    /\ products = <<>> /\ errors = <<>> /\ response = NoResponse

handlerVars == <<host, apiKey, supabase, method, parts, pc, items, start, task,
                 products, errors, response>>

\* the characters escapeCsvField tells apart, and an ordinary one
CsvChars == {"a", ",", "\"", "\n", "\r"}

InitEscape ==
    /\ NoRequest
    /\ arg \in Strs(CsvChars, MaxFieldLen) \cup {Null}
    /\ ret = Unset

\* a call of escapeCsvField(arg)
Escape ==
    /\ ret = Unset
    /\ ret' = <<escapeCsvField(arg)>>
    /\ UNCHANGED <<arg, handlerVars>>

SpecEscape == InitEscape /\ [][Escape]_vars

\* the characters slugify tells apart
SlugChars == {"a", "A", " ", "-", "_", "!"}

\* original names of uploaded files
FileNames == {<<"1", ".", "j", "p", "g">>, <<"M", "y", " ", "1", ".", "J", "P", "G">>}

InitHandle ==
    /\ NoRequest
    /\ arg \in [title : Strs(SlugChars, MaxTitleLen), filename : FileNames]
    /\ ret = Unset

\* getProductFromImage from the parsed reply { title } on
Classify ==
    /\ ret = Unset
    /\ ret' = <<BuildProduct([EmptyReply EXCEPT !.title = arg.title], arg.filename)>>
    /\ UNCHANGED <<arg, handlerVars>>

SpecHandle == InitHandle /\ [][Classify]_vars

\* field values with and without the characters that need quoting
FieldSamples ==
    {<<"a">>, <<"a", ",", "b">>, <<"\"">>, <<"\n">>, <<"x", "\r", "\n", "y">>}

\* the name of the file the products of SpecCsv are made from
CsvFileName == <<"a", ",", "1", ".", "j", "p", "g">>

\* a public URL the upload returned
UrlSamples == {<<"h", ",", "1">>}

InitCsv ==
    /\ NoRequest
    /\ arg = <<>>
    /\ ret = Unset

\* one more image classified: a reply with one key k of value v
AddProduct ==
    /\ ret = Unset /\ Len(arg) < MaxProducts
    /\ \E k \in ReplyKeys, v \in FieldSamples \cup {EmptyStr} :
         arg' = Append(arg, BuildProduct([EmptyReply EXCEPT ![k] = v], CsvFileName))
    /\ UNCHANGED <<ret, handlerVars>>

\* one more image classified and uploaded: product.imageSrc = imageUrl
AddUploadedProduct ==
    /\ ret = Unset /\ Len(arg) < MaxProducts
    /\ \E u \in UrlSamples :
         arg' = Append(arg, SetImageSrc(BuildProduct(EmptyReply, CsvFileName), u))
    /\ UNCHANGED <<ret, handlerVars>>

\* generate.js:107-116: the CSV of a non-empty product list
Encode ==
    /\ ret = Unset /\ Len(arg) > 0
    /\ ret' = <<BuildCsv(arg)>>
    /\ UNCHANGED <<arg, handlerVars>>

CsvNext == AddProduct \/ AddUploadedProduct \/ Encode

SpecCsv == InitCsv /\ [][CsvNext]_vars

(***************************************************************************)
(* A CSV reader (RFC 4180; a record ends at CRLF, LF or CR outside quotes) *)
(***************************************************************************)
\* the reader's state before the first character
ScanStart == [recs |-> <<>>, rec |-> <<>>, fld |-> <<>>, mode |-> "plain"]

EndField(st) == [st EXCEPT !.rec = Append(@, st.fld), !.fld = <<>>, !.mode = "plain"]

EndRecord(st, mode) ==
    [st EXCEPT !.recs = Append(@, Append(st.rec, st.fld)), !.rec = <<>>, !.fld = <<>>,
               !.mode = mode]

\* the reader reads the character c; mode is "plain", "quoted" (inside a
\* quoted field), "closed" (after a quote inside a quoted field) or "cr"
\* (after a CR that ended a record)
Step(st, c) ==
    IF st.mode = "quoted"
    THEN IF c = "\"" THEN [st EXCEPT !.mode = "closed"]
         ELSE [st EXCEPT !.fld = Append(@, c)]
    ELSE IF c = "\"" /\ st.mode = "closed"
    THEN [st EXCEPT !.fld = Append(@, c), !.mode = "quoted"]
    ELSE IF c = "\n" /\ st.mode = "cr"
    THEN [st EXCEPT !.mode = "plain"]
    ELSE IF c = "\"" /\ st.fld = <<>> /\ st.mode # "closed"
    THEN [st EXCEPT !.mode = "quoted"]
    ELSE IF c = "," THEN EndField(st)
    ELSE IF c = "\r" THEN EndRecord(st, "cr")
    ELSE IF c = "\n" THEN EndRecord(st, "plain")
    ELSE [st EXCEPT !.fld = Append(@, c), !.mode = "plain"]

ScanModes == {"plain", "quoted", "closed", "cr"}

RECURSIVE Scan(_, _, _, _)
\* the reader's state after the characters lo..hi of text, read from st: the
\* first half is read, then the second half from the state reached (the test
\* on that state has it evaluated before the second half is entered)
Scan(st, text, lo, hi) ==
    IF lo > hi THEN st
    ELSE IF lo = hi THEN Step(st, text[lo])
    ELSE LET left == Scan(st, text, lo, (lo + hi) \div 2)
         IN IF left.mode \in ScanModes
            THEN Scan(left, text, ((lo + hi) \div 2) + 1, hi)
            ELSE left

\* the records of a CSV text, each the sequence of its unescaped fields
ParseCsv(text) ==
    LET body == IF text # <<>> /\ Head(text) = BOM THEN Tail(text) ELSE text
        st == Scan(ScanStart, body, 1, Len(body))
    IN Append(st.recs, Append(st.rec, st.fld))

Count(s, c) == Cardinality({i \in DOMAIN s : s[i] = c})

C9_EscapeRoundTrip ==
    (ret # Unset /\ arg # Null) =>
      LET special == \E i \in DOMAIN arg : arg[i] \in {",", "\"", "\n", "\r"}
          out == ret[1]
          inner == SubSeq(out, 2, Len(out) - 1)
      IN /\ special =>
              /\ Len(out) = Len(arg) + Count(arg, "\"") + 2
              /\ out[1] = "\"" /\ out[Len(out)] = "\""
              /\ Count(inner, "\"") = 2 * Count(arg, "\"")
              /\ SelectSeq(inner, LAMBDA c : c # "\"") = SelectSeq(arg, LAMBDA c : c # "\"")
              /\ \A i \in DOMAIN inner :
                   inner[i] = "\"" =>
                     \/ (i > 1 /\ inner[i - 1] = "\"")
                     \/ (i < Len(inner) /\ inner[i + 1] = "\"")
         /\ ~special => out = arg
         /\ ParseCsv(out) = <<<<arg>>>>

\* C9 witness: a string with a double quote, a comma and a line feed
C9_Witness ==
    /\ arg = <<"\"", ",", "\n">>
    /\ ret = <<(<<"\"", "\"", "\"", ",", "\n", "\"">>)>>

IsSlug(h) ==
    /\ h # <<>>
    /\ \A i \in DOMAIN h : h[i] \in (WordChars \ Range(UpperLetters)) \cup {"-"}
    /\ h[1] # "-" /\ h[Len(h)] # "-"
    /\ \A i \in 1..(Len(h) - 1) : ~(h[i] = "-" /\ h[i + 1] = "-")

\* C10: the handle of the record getProductFromImage returns, and the handle
\* toShopifyRow writes for it, is a non-empty slug
C10_HandleIsSlug ==
    (ret # Unset) =>
      /\ IsSlug(ret[1].handle)
      /\ IsSlug(ParseCsv(toShopifyRow(ret[1], 0))[1][1])

====
